---- MODULE Spec2Model ----
(***************************************************************************)
(* State-machine model of the Movie Manager single-page application:       *)
(* the application shell (App.tsx), the movie list and its delete          *)
(* mutation (MovieList), the movie form (MovieForm.tsx) and the optimistic *)
(* mutation patterns of the best-practices and advanced-examples chapters, *)
(* together with the ['movies'] query of the data-fetching layer and the   *)
(* remote GraphQL service they talk to.                                    *)
(*                                                                         *)
(* The UI runs on a single event loop: every event handler and every       *)
(* promise continuation runs to completion, so each is one action.  The    *)
(* network is asynchronous: a request is sent, handled by the server at    *)
(* some later point, and its response is delivered at some later point.    *)
(***************************************************************************)
EXTENDS Integers, Sequences, FiniteSets, TLC

(***************************************************************************)
(* Bounds of the model.                                                    *)
(***************************************************************************)
\* number of mutations the user issues in one behaviour
MaxMutations == 2

(***************************************************************************)
(* Values.                                                                 *)
(***************************************************************************)
\* `undefined` for the numeric form field `released`
Undefined == 0 - 1
\* a null / missing string field
NullStr == "<null>"
\* the retry option of the QueryClient
Retry == 1

\* titles made of white space only that the user can type
BlankTitles == {" "}

\* String.prototype.trim on the strings of the model
trim(str) == IF str \in BlankTitles THEN "" ELSE str

\* titles the user can type into the create form ("" is the initial value)
TypedTitles == {"", "Arrival"}
\* values the number input can produce for `released`
TypedReleased == {Undefined, 2016}
\* values the user can type into the tagline input
TypedTaglines == {"", "Time"}

\* the database the session starts with
InitMovies ==
  { [title |-> "Matrix",  released |-> 1999, tagline |-> "Welcome"],
    [title |-> "Top Gun", released |-> 1986, tagline |-> NullStr] }
InitEdges ==
  { [movie |-> "Matrix", person |-> "Keanu", rel |-> "ACTED_IN"],
    [movie |-> "Matrix", person |-> "Lana",  rel |-> "DIRECTED"] }

VARIABLES
  view,          \* App.tsx: 'list' | 'create' | 'edit' | 'manage'
  selectedMovie, \* App.tsx: <<>> (undefined) or <<movie>>
  formData,      \* MovieForm: [title, released, tagline]
  server,        \* remote service: [movies, edges]
  moviesQuery,   \* the ['movies'] query: cache entry and its fetch
  muts,          \* mutations in flight, in the order they were issued
  issued,        \* number of mutations issued so far
  toasts,        \* number of error indications shown for failed mutations
  hist,          \* the last event of a mutation (observation only)
  search,        \* Search: [typed, active, queries], a query per search term
  manager        \* RelationshipManager: [selectedPerson, relationType, people]

vars == <<view, selectedMovie, formData, server, moviesQuery, muts, issued, toasts, hist,
          search, manager>>

(***************************************************************************)
(* Remote service.                                                         *)
(***************************************************************************)
PeopleOf(srv, t, r) == { e.person : e \in { x \in srv.edges : x.movie = t /\ x.rel = r } }

\* GET_MOVIES: every movie with its actors and directors
GET_MOVIES(srv) ==
  { [title |-> m.title, released |-> m.released, tagline |-> m.tagline,
     peopleActedIn |-> PeopleOf(srv, m.title, "ACTED_IN"),
     peopleDirected |-> PeopleOf(srv, m.title, "DIRECTED")] : m \in srv.movies }

\* movies a person is credited in (the "former counterparts" view of an edge)
CreditsOf(srv, p) == { e.movie : e \in { x \in srv.edges : x.person = p } }

\* CREATE_MOVIE: $released is Int!, so a request without it is rejected
CreateAccepted(v) == v.released # Undefined
CREATE_MOVIE(srv, v) ==
  [srv EXCEPT !.movies = @ \cup { [title |-> v.title, released |-> v.released, tagline |-> v.tagline] }]

\* UPDATE_MOVIE: set tagline and released of every movie with that title
UPDATE_MOVIE(srv, v) ==
  [srv EXCEPT !.movies =
     { IF m.title = v.title
         THEN [m EXCEPT !.tagline = v.tagline,
                        !.released = IF v.released = Undefined THEN m.released ELSE v.released]
         ELSE m : m \in @ }]

\* DELETE_MOVIE: remove the movie nodes with that title and their edges
DELETE_MOVIE(srv, v) ==
  [movies |-> { m \in srv.movies : m.title # v.title },
   edges  |-> { e \in srv.edges : e.movie # v.title }]

\* GET_PEOPLE: the names of the person nodes; the application never
\* creates or deletes a person
GET_PEOPLE(srv) == {"Keanu", "Lana"}

\* the movie and the person are joined by a relationship of that type
Connected(srv, t, p, r) ==
  \E e \in srv.edges : e.movie = t /\ e.person = p /\ e.rel = r

\* faulty variant: a connect of a pair that is already connected is refused
ConnectAccepted_strict(srv, v) == ~Connected(srv, v.title, v.person, v.rel)

\* `connect` does not fail if the relationship already exists
ConnectAccepted(srv, v) == TRUE

\* ASSIGN_ACTOR / ASSIGN_DIRECTOR: updateMovies(where title, update:
\* { connect: where name }): every movie of that title is joined to the
\* person, unless it already is
ASSIGN(srv, v) ==
  [srv EXCEPT !.edges =
     @ \cup { [movie |-> m.title, person |-> v.person, rel |-> v.rel] :
               m \in { x \in srv.movies :
                         x.title = v.title /\ ~Connected(srv, x.title, v.person, v.rel) } }]

(***************************************************************************)
(* The ['movies'] query (TanStack Query semantics).                        *)
(*   data         <<>> or <<set of movies>>                                *)
(*   err          the query is in error state                              *)
(*   invalidated  isInvalidated                                            *)
(*   fetchStatus  "idle", "sent" (request on its way to the server) or     *)
(*                "responded" (response on its way back)                   *)
(*   res          the response                                             *)
(*   attempt      failed attempts of the current fetch                     *)
(* and, for observation only,                                              *)
(*   prePatch     the fetch in flight started before an optimistic patch   *)
(*                that has been written                                    *)
(*   fresh        the fetch in flight started after the last invalidation  *)
(*   dataFresh    data is the result of such a fetch                       *)
(***************************************************************************)
NoResult == {}

StartFetch(q) ==
  [q EXCEPT !.fetchStatus = "sent", !.res = NoResult, !.attempt = 0,
            !.prePatch = FALSE, !.fresh = TRUE,
            !.err = IF q.data = <<>> THEN FALSE ELSE @]

\* faulty variant: a request is started even when one is in flight
Fetch_noJoin(q, cancelRefetch) == StartFetch(q)

\* Query.fetch: a fetch in flight is joined, unless cancelRefetch is set and
\* the query already has data
Fetch(q, cancelRefetch) ==
  IF q.fetchStatus # "idle" /\ ~(q.data # <<>> /\ cancelRefetch) THEN q ELSE StartFetch(q)

\* faulty variant: the query is marked invalidated but never refetched
invalidateQueries_markOnly(q, active) ==
  [q EXCEPT !.invalidated = TRUE, !.fresh = FALSE, !.dataFresh = FALSE]

\* queryClient.invalidateQueries({ queryKey: ['movies'] }): mark the query
\* invalidated and refetch it if an observer is mounted
invalidateQueries(q, active) ==
  LET q1 == [q EXCEPT !.invalidated = TRUE, !.fresh = FALSE, !.dataFresh = FALSE]
  IN  IF active THEN Fetch(q1, TRUE) ELSE q1

\* faulty variant: the reads in flight are not cancelled
cancelQueries_off(q) == q

\* queryClient.cancelQueries({ queryKey: ['movies'] })
cancelQueries(q) ==
  [q EXCEPT !.fetchStatus = "idle", !.res = NoResult, !.attempt = 0,
            !.prePatch = FALSE, !.fresh = FALSE]

\* queryClient.setQueryData(['movies'], value): undefined is ignored
setQueryData(q, value) ==
  IF value = <<>> THEN q
  ELSE [q EXCEPT !.data = value, !.err = FALSE, !.invalidated = FALSE,
                 !.dataFresh = FALSE]

\* useQuery({ queryKey: ['movies'] }) when MovieList mounts: staleTime is 0,
\* so the mount always fetches, joining a fetch that is in flight
MovieListMount(q) == Fetch(q, FALSE)

\* what MovieList renders as rows: nothing while loading or in error
isLoading(q) == q.data = <<>> /\ q.fetchStatus # "idle"
RenderedMovies(q) ==
  IF isLoading(q) \/ q.err \/ q.data = <<>> THEN {} ELSE q.data[1]

(***************************************************************************)
(* Application shell (App.tsx).                                            *)
(***************************************************************************)
EmptyForm == [title |-> "", released |-> Undefined, tagline |-> ""]

\* useEffect of MovieForm: copy the movie into the form
FormOf(sel) ==
  IF sel = <<>> THEN EmptyForm
  ELSE [title |-> sel[1].title, released |-> sel[1].released, tagline |-> sel[1].tagline]

\* faulty variant: the selection is never cleared
Render_keepSelection(v, sel, q) ==
  /\ view' = v
  /\ selectedMovie' = IF sel = <<>> THEN selectedMovie ELSE sel
  /\ moviesQuery' = IF v = "list" /\ view # "list" THEN MovieListMount(q) ELSE q
  /\ formData' = IF v = view /\ sel = selectedMovie THEN formData
                 ELSE IF v = "edit" THEN FormOf(sel) ELSE EmptyForm
  /\ manager' = IF v = view /\ sel = selectedMovie THEN manager
                ELSE [manager EXCEPT !.selectedPerson = "", !.relationType = "actor"]

\* Rendering after setView / setSelectedMovie: which components mount
\* and unmount.  A form that unmounts stops observing its mutations.
Render(v, sel, q) ==
  /\ view' = v
  /\ selectedMovie' = sel
  /\ moviesQuery' = IF v = "list" /\ view # "list" THEN MovieListMount(q) ELSE q
  /\ formData' = IF v = view /\ sel = selectedMovie THEN formData
                 ELSE IF v = "edit" THEN FormOf(sel) ELSE EmptyForm
  /\ manager' = IF v = view /\ sel = selectedMovie THEN manager
                ELSE [manager EXCEPT !.selectedPerson = "", !.relationType = "actor"]

\* faulty variant: unmounting a form aborts the mutations it has in flight
Unobserve_abort(ms, v, sel) ==
  IF v = view /\ sel = selectedMovie THEN ms
  ELSE SelectSeq(ms, LAMBDA m : ~m.observed)

Unobserve(ms, v, sel) ==
  IF v = view /\ sel = selectedMovie THEN ms
  ELSE [i \in 1..Len(ms) |-> [ms[i] EXCEPT !.observed = FALSE]]

Note(kind, arg) == [kind |-> kind, arg |-> arg]

\* nav button 'Movies'
NavMovies ==
  /\ Render("list", selectedMovie, moviesQuery)
  /\ muts' = Unobserve(muts, "list", selectedMovie)
  /\ UNCHANGED hist
  /\ UNCHANGED <<server, issued, toasts>>
  /\ UNCHANGED search

\* nav button 'Add Movie'
NavAddMovie ==
  /\ Render("create", selectedMovie, moviesQuery)
  /\ muts' = Unobserve(muts, "create", selectedMovie)
  /\ UNCHANGED hist
  /\ UNCHANGED <<server, issued, toasts>>
  /\ UNCHANGED search

handleEdit(movie) ==
  /\ view = "list"
  /\ movie \in RenderedMovies(moviesQuery)
  /\ Render("edit", <<movie>>, moviesQuery)
  /\ muts' = Unobserve(muts, "edit", <<movie>>)
  /\ UNCHANGED hist
  /\ UNCHANGED <<server, issued, toasts>>
  /\ UNCHANGED search

handleManage(movie) ==
  /\ view = "list"
  /\ movie \in RenderedMovies(moviesQuery)
  /\ Render("manage", <<movie>>, moviesQuery)
  /\ muts' = Unobserve(muts, "manage", <<movie>>)
  /\ UNCHANGED hist
  /\ UNCHANGED <<server, issued, toasts>>
  /\ UNCHANGED search

\* the form or manager shown in the main area, if any
FormShown == view = "create" \/ (view = "edit" /\ selectedMovie # <<>>)
ManagerShown == view = "manage" /\ selectedMovie # <<>>

\* RelationshipManager, "Current Actors" and "Current Directors": the rows
\* of movie.actors?.map(...) and movie.directors?.map(...), each with a
\* Remove button; a property the movie object does not have is undefined and
\* renders no row
ManagerActors(movie) == IF "actors" \in DOMAIN movie THEN movie.actors ELSE {}
ManagerDirectors(movie) == IF "directors" \in DOMAIN movie THEN movie.directors ELSE {}

\* faulty variant: onComplete clears the selection and leaves the view
handleComplete_keepView ==
  /\ FormShown \/ ManagerShown
  /\ Render(view, <<>>, moviesQuery)
  /\ muts' = Unobserve(muts, view, <<>>)
  /\ UNCHANGED hist
  /\ UNCHANGED <<server, issued, toasts>>
  /\ UNCHANGED search

\* Cancel (MovieForm) and Close (RelationshipManager) call onComplete
handleComplete ==
  /\ FormShown \/ ManagerShown
  /\ Render("list", <<>>, moviesQuery)
  /\ muts' = Unobserve(muts, "list", <<>>)
  /\ UNCHANGED hist
  /\ UNCHANGED <<server, issued, toasts>>
  /\ UNCHANGED search

(***************************************************************************)
(* Network: reads of ['movies'].                                           *)
(***************************************************************************)
\* the server answers the read
ServerHandleRead ==
  /\ moviesQuery.fetchStatus = "sent"
  /\ moviesQuery' = [moviesQuery EXCEPT !.fetchStatus = "responded", !.attempt = 0,
                       !.res = GET_MOVIES(server)]
  /\ UNCHANGED hist
  /\ UNCHANGED <<view, selectedMovie, formData, server, muts, issued, toasts>>
  /\ UNCHANGED <<search, manager>>

\* the response arrives and is stored
FetchSettle ==
  /\ moviesQuery.fetchStatus = "responded"
  /\ moviesQuery' = [moviesQuery EXCEPT !.data = <<moviesQuery.res>>, !.err = FALSE,
                       !.invalidated = FALSE, !.fetchStatus = "idle", !.res = NoResult,
                       !.attempt = 0, !.prePatch = FALSE, !.fresh = FALSE,
                       !.dataFresh = moviesQuery.fresh]
  /\ UNCHANGED <<view, selectedMovie, formData, server, muts, issued, toasts, hist>>
  /\ UNCHANGED <<search, manager>>

\* what a failed request can fail with: a transport failure, an
\* authentication failure (401 / 403) or a response with a GraphQL `errors`
\* array
ErrorKinds == {"network", "auth", "graphql"}

\* the retry option of the QueryClient, `retry: 1`: a failed request is sent
\* again while fewer than `retry` attempts have failed, whatever the error
retry(failureCount, kind) == failureCount < Retry

\* the request fails with an error of that kind: it is sent again if `retry`
\* says so, else the query is in error state
FetchFailWith(kind) ==
  /\ moviesQuery.fetchStatus = "sent"
  /\ moviesQuery' =
       IF retry(moviesQuery.attempt, kind)
         THEN [moviesQuery EXCEPT !.attempt = @ + 1]
         ELSE [moviesQuery EXCEPT !.fetchStatus = "idle", !.err = TRUE, !.attempt = 0,
                                  !.prePatch = FALSE, !.fresh = FALSE]
  /\ UNCHANGED <<view, selectedMovie, formData, server, muts, issued, toasts, hist>>
  /\ UNCHANGED <<search, manager>>

FetchFail == \E kind \in ErrorKinds : FetchFailWith(kind)

(***************************************************************************)
(* Mutations.  A mutation in flight is a record                            *)
(*   kind      "create" | "update" | "delete" | "optDelete" | "optUpdate"  *)
(*             | "assign"                                                  *)
(*   vars      the variables of the request                                *)
(*   context   what onMutate returned: <<>> or <<previousMovies>>          *)
(*   pc        "sent" (on its way to the server), "ok" or "err" (the       *)
(*             response on its way back)                                   *)
(*   observed  issued by a MovieForm that is still mounted                 *)
(***************************************************************************)
Optimistic(m) == m.kind \in {"optDelete", "optUpdate"}

Mutation(kind, v, ctx) ==
  [kind |-> kind, vars |-> v, context |-> ctx, pc |-> "sent",
   observed |-> kind \in {"create", "update"}]

TitleVars(title) == [title |-> title, released |-> Undefined, tagline |-> NullStr]

RemoveAt(s, i) == [j \in 1..(Len(s) - 1) |-> IF j < i THEN s[j] ELSE s[j + 1]]

\* createMovieMutation.isPending || updateMovieMutation.isPending
isPending == \E i \in 1..Len(muts) : muts[i].observed /\ muts[i].kind \in {"create", "update"}

(***************************************************************************)
(* MovieForm.                                                              *)
(***************************************************************************)
\* faulty variant: the title input is enabled in the edit form too
setTitle_anyForm(t) ==
  /\ FormShown
  /\ formData' = [formData EXCEPT !.title = t]
  /\ UNCHANGED hist
  /\ UNCHANGED <<view, selectedMovie, server, moviesQuery, muts, issued, toasts>>
  /\ UNCHANGED <<search, manager>>

\* the title input is disabled when a movie is edited
setTitle(t) ==
  /\ view = "create"
  /\ formData' = [formData EXCEPT !.title = t]
  /\ UNCHANGED hist
  /\ UNCHANGED <<view, selectedMovie, server, moviesQuery, muts, issued, toasts>>
  /\ UNCHANGED <<search, manager>>

setReleased(r) ==
  /\ FormShown
  /\ formData' = [formData EXCEPT !.released = r]
  /\ UNCHANGED hist
  /\ UNCHANGED <<view, selectedMovie, server, moviesQuery, muts, issued, toasts>>
  /\ UNCHANGED <<search, manager>>

setTagline(g) ==
  /\ FormShown
  /\ formData' = [formData EXCEPT !.tagline = g]
  /\ UNCHANGED hist
  /\ UNCHANGED <<view, selectedMovie, server, moviesQuery, muts, issued, toasts>>
  /\ UNCHANGED <<search, manager>>

\* faulty variant: the submit button stays enabled while a mutation is pending
CanSubmit_whilePending ==
  /\ FormShown
  /\ view = "create" => formData.title # ""

\* the browser submits the form only if the submit button is enabled and
\* the required title input (when it is enabled) is not empty
CanSubmit ==
  /\ FormShown
  /\ ~isPending
  /\ view = "create" => formData.title # ""

handleSubmit ==
  /\ CanSubmit
  /\ issued < MaxMutations
  /\ muts' = Append(muts, Mutation(IF view = "edit" THEN "update" ELSE "create", formData, <<>>))
  /\ issued' = issued + 1
  /\ UNCHANGED hist
  /\ UNCHANGED <<view, selectedMovie, formData, server, moviesQuery, toasts>>
  /\ UNCHANGED <<search, manager>>

(***************************************************************************)
(* MovieForm, the variant whose year defaults to the current year.         *)
(***************************************************************************)
\* new Date().getFullYear()
CurrentYear == 2026
\* the number NaN
NaN == 0 - 2

\* e.target.value of the number input: what is typed when it is a number,
\* the empty string when the field is empty or holds something else
YearInputs == {"", "0", "2016", "2016.5"}

\* parseInt on those strings
parseInt(text) ==
  CASE text = "" -> NaN
    [] text = "0" -> 0
    [] text = "2016" -> 2016
    [] text = "2016.5" -> 2016

\* the operands `||` replaces by its right-hand side
Falsy(n) == n = NaN \/ n = 0 \/ n = Undefined

\* Number(movie.released)
Number(v) == IF v = Undefined THEN NaN ELSE v

YearEmptyForm == [title |-> "", released |-> CurrentYear, tagline |-> ""]

\* useState initial value, then the useEffect that copies the movie
YearFormOf(sel) ==
  IF sel = <<>> THEN YearEmptyForm
  ELSE [title |-> sel[1].title, released |-> Number(sel[1].released),
        tagline |-> IF sel[1].tagline = NullStr THEN "" ELSE sel[1].tagline]

\* Render with this form in place of the other
YearRender(v, sel, q) ==
  /\ view' = v
  /\ selectedMovie' = sel
  /\ moviesQuery' = IF v = "list" /\ view # "list" THEN MovieListMount(q) ELSE q
  /\ formData' = IF v = view /\ sel = selectedMovie THEN formData
                 ELSE IF v = "edit" THEN YearFormOf(sel)
                 ELSE IF v = "create" THEN YearFormOf(<<>>) ELSE EmptyForm
  /\ manager' = IF v = view /\ sel = selectedMovie THEN manager
                ELSE [manager EXCEPT !.selectedPerson = "", !.relationType = "actor"]

YearNavAddMovie ==
  /\ YearRender("create", selectedMovie, moviesQuery)
  /\ muts' = Unobserve(muts, "create", selectedMovie)
  /\ UNCHANGED <<server, issued, toasts, hist, search>>

YearHandleEdit(movie) ==
  /\ view = "list"
  /\ movie \in RenderedMovies(moviesQuery)
  /\ YearRender("edit", <<movie>>, moviesQuery)
  /\ muts' = Unobserve(muts, "edit", <<movie>>)
  /\ UNCHANGED <<server, issued, toasts, hist, search>>

\* faulty variant: what parseInt returns is stored as it is
setReleasedYear_asParsed(text) ==
  /\ FormShown
  /\ formData' = [formData EXCEPT !.released = parseInt(text)]
  /\ UNCHANGED <<view, selectedMovie, server, moviesQuery, muts, issued, toasts, hist,
               search, manager>>

\* onChange of the year input: parseInt(e.target.value) || new Date().getFullYear()
setReleasedYear(text) ==
  /\ FormShown
  /\ formData' = [formData EXCEPT !.released =
                    IF Falsy(parseInt(text)) THEN CurrentYear ELSE parseInt(text)]
  /\ UNCHANGED <<view, selectedMovie, server, moviesQuery, muts, issued, toasts, hist,
               search, manager>>

\* the year input is required, with min 1800 and max 2100: the browser
\* submits the form only with a year in that range
YearHandleSubmit ==
  /\ formData.released \in 1800..2100
  /\ handleSubmit

(***************************************************************************)
(* MovieList: delete.                                                      *)
(***************************************************************************)
\* faulty variant: the delete is dispatched whatever the dialog returns
DeleteClick_noConfirm(movie, confirmed) ==
  /\ view = "list"
  /\ movie \in RenderedMovies(moviesQuery)
  /\ issued < MaxMutations
  /\ muts' = Append(muts, Mutation("delete", TitleVars(movie.title), <<>>))
  /\ issued' = issued + 1
  /\ UNCHANGED <<view, selectedMovie, formData, server, moviesQuery, toasts, hist>>
  /\ UNCHANGED <<search, manager>>

\* Delete button: confirm(), then deleteMovieMutation.mutate(movie.title)
DeleteClick(movie, confirmed) ==
  /\ view = "list"
  /\ movie \in RenderedMovies(moviesQuery)
  /\ IF confirmed
       THEN /\ issued < MaxMutations
            /\ muts' = Append(muts, Mutation("delete", TitleVars(movie.title), <<>>))
            /\ issued' = issued + 1
       ELSE UNCHANGED <<muts, issued>>
  /\ UNCHANGED hist
  /\ UNCHANGED <<view, selectedMovie, formData, server, moviesQuery, toasts>>
  /\ UNCHANGED <<search, manager>>

(***************************************************************************)
(* Optimistic mutations (best practices 5, advanced examples).             *)
(***************************************************************************)
\* the updater of the optimistic delete
FilterTitle(movies, title) == { m \in movies : m.title # title }

\* the updater of the optimistic update: { ...movie, ...newMovie }
MergeMovie(movies, newMovie) ==
  { IF m.title = newMovie.title
      THEN [m EXCEPT !.released = newMovie.released, !.tagline = newMovie.tagline]
      ELSE m : m \in movies }

Patch(kind, movies, v) ==
  IF kind = "optDelete" THEN FilterTitle(movies, v.title) ELSE MergeMovie(movies, v)

\* onMutate: cancel the reads in flight, snapshot, patch; the await resumes
\* in a microtask, so no event is handled in between
onMutate(kind, v) ==
  LET q1 == cancelQueries(moviesQuery)
      previousMovies == q1.data
      q2 == setQueryData(q1, <<Patch(kind, q1.data[1], v)>>)
  IN  /\ moviesQuery.data # <<>>
      /\ moviesQuery' = [q2 EXCEPT !.prePatch = (q2.fetchStatus # "idle")]
      /\ muts' = Append(muts, Mutation(kind, v, previousMovies))
      /\ issued' = issued + 1

\* the optimistic deleteMovieMutation, invoked from a row of the list
optimisticDelete(movie) ==
  /\ view = "list"
  /\ movie \in RenderedMovies(moviesQuery)
  /\ issued < MaxMutations
  /\ onMutate("optDelete", TitleVars(movie.title))
  /\ hist' = Note("onMutate", <<"optDelete", movie.title, moviesQuery.fetchStatus # "idle">>)
  /\ UNCHANGED <<view, selectedMovie, formData, server, toasts>>
  /\ UNCHANGED <<search, manager>>

\* useOptimisticMovieUpdate, invoked from the form of the edited movie
optimisticUpdate ==
  /\ view = "edit" /\ selectedMovie # <<>>
  /\ issued < MaxMutations
  /\ onMutate("optUpdate", formData)
  /\ hist' = Note("onMutate", <<"optUpdate", formData.title, moviesQuery.fetchStatus # "idle">>)
  /\ UNCHANGED <<view, selectedMovie, formData, server, toasts>>
  /\ UNCHANGED <<search, manager>>

(***************************************************************************)
(* Network: mutations.                                                     *)
(***************************************************************************)
Apply(srv, m) ==
  CASE m.kind = "create" -> CREATE_MOVIE(srv, m.vars)
    [] m.kind \in {"update", "optUpdate"} -> UPDATE_MOVIE(srv, m.vars)
    [] m.kind \in {"delete", "optDelete"} -> DELETE_MOVIE(srv, m.vars)
    [] m.kind = "assign" -> ASSIGN(srv, m.vars)

Accepted(m) ==
  /\ m.kind = "create" => CreateAccepted(m.vars)
  /\ m.kind = "assign" => ConnectAccepted(server, m.vars)

\* the server handles the request: it applies it and answers ("ok"), or the
\* request fails and nothing is applied ("rejected")
Outcomes(m) == IF Accepted(m) THEN {"ok", "rejected"} ELSE {"rejected"}

ServerHandleMutation(i) ==
  /\ muts[i].pc = "sent"
  /\ \E o \in Outcomes(muts[i]) :
       /\ server' = IF o = "rejected" THEN server ELSE Apply(server, muts[i])
       /\ muts' = [muts EXCEPT ![i].pc = IF o = "ok" THEN "ok" ELSE "err"]
       /\ UNCHANGED hist
  /\ UNCHANGED <<view, selectedMovie, formData, moviesQuery, issued, toasts>>
  /\ UNCHANGED <<search, manager>>

\* the server applies the request but its response is lost: the client sees
\* a failure
ServerLoseResponse(i) ==
  /\ muts[i].pc = "sent"
  /\ Accepted(muts[i])
  /\ server' = Apply(server, muts[i])
  /\ muts' = [muts EXCEPT ![i].pc = "err"]
  /\ UNCHANGED <<view, selectedMovie, formData, moviesQuery, issued, toasts, hist>>
  /\ UNCHANGED <<search, manager>>

\* faulty variant: the snapshot is merged into the cache instead of replacing it
onError_merge(q, m) == setQueryData(q, <<q.data[1] \cup m.context[1]>>)

\* faulty variant: the cache is left as it is
onError_off(q, m) == q

\* faulty variant: one snapshot is shared by the mutations in flight, the oldest
onError_shared(q, m) == setQueryData(q, muts[1].context)

\* onError of the optimistic mutations: restore the snapshot
onError(q, m) == setQueryData(q, m.context)

\* faulty variant: nothing is invalidated when the mutation settles
onSettled_off(q) == q

\* onSettled of the optimistic mutations
onSettled(q) == invalidateQueries(q, view = "list")

\* The response of mutation i arrives and its callbacks run.
\*   create / update: onSuccess invalidates ['movies'] and calls onComplete
\*   assign:          onSuccess invalidates ['movies'] and calls onComplete
\*   delete:          onSuccess invalidates ['movies']
\*   optimistic:      onError restores the snapshot (the update also shows a
\*                    toast), onSettled invalidates ['movies']
MutationSettle(i) ==
  LET m == muts[i]
      rest == RemoveAt(muts, i)
  IN
  /\ m.pc \in {"ok", "err"}
  /\ hist' = Note("MutationSettle", <<m.kind, m.pc, m.vars.title, i>>)
  /\ UNCHANGED <<server, issued>>
  /\ CASE m.kind \in {"create", "update", "assign"} /\ m.pc = "ok" ->
            /\ Render("list", <<>>, invalidateQueries(moviesQuery, view = "list"))
            /\ muts' = Unobserve(rest, "list", <<>>)
            /\ UNCHANGED toasts
       [] m.kind = "delete" /\ m.pc = "ok" ->
            /\ moviesQuery' = invalidateQueries(moviesQuery, view = "list")
            /\ muts' = rest
            /\ UNCHANGED <<view, selectedMovie, formData, toasts, manager>>
       [] Optimistic(m) ->
            /\ moviesQuery' = onSettled(IF m.pc = "err" THEN onError(moviesQuery, m) ELSE moviesQuery)
            /\ toasts' = IF m.pc = "err" /\ m.kind = "optUpdate" THEN toasts + 1 ELSE toasts
            /\ muts' = rest
            /\ UNCHANGED <<view, selectedMovie, formData, manager>>
       [] OTHER ->
            /\ muts' = rest
            /\ UNCHANGED <<view, selectedMovie, formData, moviesQuery, toasts, manager>>
  /\ UNCHANGED search

(***************************************************************************)
(* RelationshipManager.                                                    *)
(***************************************************************************)
RelationTypes == {"actor", "director"}
RelOf(relationType) == IF relationType = "actor" THEN "ACTED_IN" ELSE "DIRECTED"

\* useQuery({ queryKey: ['people'] }): the response of the request sent when
\* the manager mounted arrives; until then the person select has no option
PeopleSettle ==
  /\ ManagerShown
  /\ manager.people = <<>>
  /\ manager' = [manager EXCEPT !.people = <<GET_PEOPLE(server)>>]
  /\ UNCHANGED <<view, selectedMovie, formData, server, moviesQuery, muts, issued, toasts, hist,
               search>>

\* the options of the person select
PersonOptions == {""} \cup (IF manager.people = <<>> THEN {} ELSE manager.people[1])

setSelectedPerson(p) ==
  /\ ManagerShown
  /\ p \in PersonOptions
  /\ manager' = [manager EXCEPT !.selectedPerson = p]
  /\ UNCHANGED <<view, selectedMovie, formData, server, moviesQuery, muts, issued, toasts, hist,
               search>>

setRelationType(r) ==
  /\ ManagerShown
  /\ manager' = [manager EXCEPT !.relationType = r]
  /\ UNCHANGED <<view, selectedMovie, formData, server, moviesQuery, muts, issued, toasts, hist,
               search>>

\* the Add button: disabled while no person is selected
handleAssign ==
  /\ ManagerShown
  /\ manager.selectedPerson # ""
  /\ issued < MaxMutations
  /\ muts' = Append(muts, Mutation("assign",
                 [title |-> selectedMovie[1].title, person |-> manager.selectedPerson,
                  rel |-> RelOf(manager.relationType)], <<>>))
  /\ issued' = issued + 1
  /\ UNCHANGED <<view, selectedMovie, formData, server, moviesQuery, toasts, hist,
               search, manager>>

(***************************************************************************)
(* Search (rendered by App above the main area, always mounted).           *)
(***************************************************************************)
\* what the user can type into the search box
SearchInputs == {"", " ", "Mat", "Top"}

\* the typed fragments that occur in a text
Fragments(text) ==
  CASE text = "Matrix" -> {"Mat"}
    [] text = "Top Gun" -> {"Top", " "}
    [] OTHER -> {}

\* the `contains` filter
Contains(text, term) ==
  text # NullStr /\ (term = "" \/ term = text \/ term \in Fragments(text))

\* SEARCH_ALL: the movies whose title or tagline contains the term
SEARCH_ALL(srv, term) ==
  { m \in GET_MOVIES(srv) : Contains(m.title, term) \/ Contains(m.tagline, term) }

\* a query nobody has fetched
IdleQuery ==
  [data |-> <<>>, err |-> FALSE, invalidated |-> FALSE, fetchStatus |-> "idle",
   res |-> NoResult, attempt |-> 0, prePatch |-> FALSE, fresh |-> FALSE,
   dataFresh |-> FALSE]

\* useQuery({ queryKey: ['search', activeSearch], enabled: activeSearch.length > 0 }):
\* the observer moves to the query of the new term and fetches it
SearchObserve(queries, term) ==
  IF term = "" THEN queries
  ELSE [queries EXCEPT ![term] = [Fetch(@, FALSE) EXCEPT !.fresh = FALSE]]

\* data?.movies of the search box
SearchResults ==
  IF search.active = "" \/ search.queries[search.active].data = <<>>
    THEN {} ELSE search.queries[search.active].data[1]

\* onChange of the search input
setSearchTerm(t) ==
  /\ search' = [search EXCEPT !.typed = t]
  /\ UNCHANGED <<view, selectedMovie, formData, server, moviesQuery, muts, issued, toasts, hist,
               manager>>

\* faulty variant: the typed term is committed without the trim test
handleSearch_noTrim ==
  /\ search.typed # search.active
  /\ search' = [search EXCEPT !.active = search.typed,
                              !.queries = SearchObserve(@, search.typed)]
  /\ UNCHANGED <<view, selectedMovie, formData, server, moviesQuery, muts, issued, toasts, hist,
               manager>>

\* onSubmit of the search form; a submit that commits nothing, or the term
\* already committed, changes nothing
handleSearch ==
  /\ trim(search.typed) # ""
  /\ search.typed # search.active
  /\ search' = [search EXCEPT !.active = search.typed,
                              !.queries = SearchObserve(@, search.typed)]
  /\ UNCHANGED <<view, selectedMovie, formData, server, moviesQuery, muts, issued, toasts, hist,
               manager>>

\* the server answers the search request of a term
ServerHandleSearch(t) ==
  /\ search.queries[t].fetchStatus = "sent"
  /\ search' = [search EXCEPT !.queries[t].fetchStatus = "responded",
                              !.queries[t].res = SEARCH_ALL(server, t)]
  /\ UNCHANGED <<view, selectedMovie, formData, server, moviesQuery, muts, issued, toasts, hist,
               manager>>

\* the response arrives and is stored
SearchSettle(t) ==
  /\ search.queries[t].fetchStatus = "responded"
  /\ search' = [search EXCEPT !.queries[t].fetchStatus = "idle",
                              !.queries[t].data = <<search.queries[t].res>>,
                              !.queries[t].res = NoResult]
  /\ UNCHANGED <<view, selectedMovie, formData, server, moviesQuery, muts, issued, toasts, hist,
               manager>>

Init ==
  /\ view = "list"
  /\ selectedMovie = <<>>
  /\ formData = EmptyForm
  /\ server = [movies |-> InitMovies, edges |-> InitEdges]
  /\ moviesQuery = [data |-> <<>>, err |-> FALSE, invalidated |-> FALSE,
                    fetchStatus |-> "sent", res |-> NoResult,
                    attempt |-> 0, prePatch |-> FALSE, fresh |-> TRUE,
                    dataFresh |-> FALSE]
  /\ muts = <<>>
  /\ issued = 0
  /\ toasts = 0
  /\ hist = Note("Init", <<>>)
  /\ search = [typed |-> "", active |-> "",
               queries |-> [t \in SearchInputs |-> IdleQuery]]
  /\ manager = [selectedPerson |-> "", relationType |-> "actor", people |-> <<>>]

Next ==
  \/ NavMovies
  \/ NavAddMovie
  \/ \E m \in RenderedMovies(moviesQuery) : handleEdit(m)
  \/ \E m \in RenderedMovies(moviesQuery) : handleManage(m)
  \/ handleComplete
  \/ ServerHandleRead
  \/ FetchFail
  \/ FetchSettle
  \/ \E t \in TypedTitles : setTitle(t)
  \/ \E r \in TypedReleased : setReleased(r)
  \/ handleSubmit
  \/ \E m \in RenderedMovies(moviesQuery), c \in BOOLEAN : DeleteClick(m, c)
  \/ \E i \in 1..Len(muts) : ServerHandleMutation(i)
  \/ \E i \in 1..Len(muts) : MutationSettle(i)

Spec == Init /\ [][Next]_vars

\* the application with the optimistic mutations in place of the plain ones
NextOpt ==
  \/ NavMovies
  \/ \E m \in RenderedMovies(moviesQuery) : handleEdit(m)
  \/ handleComplete
  \/ ServerHandleRead
  \/ FetchFail
  \/ FetchSettle
  \/ \E g \in TypedTaglines : setTagline(g)
  \/ \E m \in RenderedMovies(moviesQuery) : optimisticDelete(m)
  \/ optimisticUpdate
  \/ \E i \in 1..Len(muts) : ServerHandleMutation(i)
  \/ \E i \in 1..Len(muts) : ServerLoseResponse(i)
  \/ \E i \in 1..Len(muts) : MutationSettle(i)

SpecOpt == Init /\ [][NextOpt]_vars

\* the forms alone: the create form with a blank title typed, the edit form
\* with a year and a tagline typed
NextForm ==
  \/ NavAddMovie
  \/ \E m \in RenderedMovies(moviesQuery) : handleEdit(m)
  \/ handleComplete
  \/ ServerHandleRead
  \/ FetchSettle
  \/ \E t \in BlankTitles : setTitle(t)
  \/ \E r \in TypedReleased \ {Undefined} : setReleased(r)
  \/ \E g \in TypedTaglines \ {""} : setTagline(g)
  \/ handleSubmit
  \/ \E i \in 1..Len(muts) : ServerHandleMutation(i)
  \/ \E i \in 1..Len(muts) : MutationSettle(i)

SpecForm == Init /\ [][NextForm]_vars

\* the search box beside the movie list and its delete
NextSearch ==
  \/ ServerHandleRead
  \/ FetchSettle
  \/ \E m \in RenderedMovies(moviesQuery) : DeleteClick(m, TRUE)
  \/ \E i \in 1..Len(muts) : ServerHandleMutation(i)
  \/ \E i \in 1..Len(muts) : MutationSettle(i)
  \/ \E t \in SearchInputs : setSearchTerm(t)
  \/ handleSearch
  \/ \E t \in SearchInputs : ServerHandleSearch(t)
  \/ \E t \in SearchInputs : SearchSettle(t)

SpecSearch == Init /\ [][NextSearch]_vars

\* the relationship manager, opened from the list
NextManage ==
  \/ ServerHandleRead
  \/ FetchSettle
  \/ \E m \in RenderedMovies(moviesQuery) : handleManage(m)
  \/ handleComplete
  \/ PeopleSettle
  \/ \E p \in GET_PEOPLE(server) \cup {""} : setSelectedPerson(p)
  \/ \E r \in RelationTypes : setRelationType(r)
  \/ handleAssign
  \/ \E i \in 1..Len(muts) : ServerHandleMutation(i)
  \/ \E i \in 1..Len(muts) : MutationSettle(i)

SpecManage == Init /\ [][NextManage]_vars

\* the application with the form whose year defaults to the current year
NextYear ==
  \/ ServerHandleRead
  \/ FetchSettle
  \/ YearNavAddMovie
  \/ \E m \in RenderedMovies(moviesQuery) : YearHandleEdit(m)
  \/ handleComplete
  \/ \E t \in TypedTitles \ {""} : setTitle(t)
  \/ \E text \in YearInputs : setReleasedYear(text)
  \/ YearHandleSubmit
  \/ \E i \in 1..Len(muts) : ServerHandleMutation(i)
  \/ \E i \in 1..Len(muts) : MutationSettle(i)

SpecYear == Init /\ [][NextYear]_vars

\* every component that writes: the forms and the relationship manager,
\* with the navigation that unmounts them
NextWrites ==
  \/ ServerHandleRead
  \/ FetchSettle
  \/ NavAddMovie
  \/ \E m \in RenderedMovies(moviesQuery) : handleEdit(m)
  \/ \E m \in RenderedMovies(moviesQuery) : handleManage(m)
  \/ handleComplete
  \/ \E t \in TypedTitles \ {""} : setTitle(t)
  \/ handleSubmit
  \/ PeopleSettle
  \/ \E p \in {"Lana"} : setSelectedPerson(p)
  \/ handleAssign
  \/ \E i \in 1..Len(muts) : ServerHandleMutation(i)
  \/ \E i \in 1..Len(muts) : MutationSettle(i)

\* the network answers every request, with a response or a failure, and
\* the event loop runs every continuation
Fairness ==
  /\ WF_vars(\E i \in 1..Len(muts) : ServerHandleMutation(i))
  /\ WF_vars(\E i \in 1..Len(muts) : MutationSettle(i))

SpecWrites == Init /\ [][NextWrites]_vars /\ Fairness

(***************************************************************************)
(* Properties.                                                             *)
(***************************************************************************)
TitlesOf(movies) == { m.title : m \in movies }

\* the optimistic patch of mutation m is visible in a movie list
PatchPresent(movies, m) ==
  IF m.kind = "optDelete"
    THEN m.vars.title \notin TitlesOf(movies)
    ELSE \A x \in movies :
           x.title = m.vars.title =>
             x.released = m.vars.released /\ x.tagline = m.vars.tagline

\* C1: in every reachable state of the shell the selected movie is defined
\* if and only if the view is `edit` or `manage`.
C1_SelectionIffView == (selectedMovie # <<>>) <=> (view \in {"edit", "manage"})

\* C2: a read of ['movies'] that started before an optimistic patch was
\* written is never in flight once the patch is in the cache, so its result
\* cannot be stored over the patch.
C2_StaleReadCancelled == moviesQuery.fetchStatus # "idle" => ~moviesQuery.prePatch

\* an optimistic mutation has just patched the cache while a read was in
\* flight, and the read is gone
C2_Witness ==
  /\ hist.kind = "onMutate"
  /\ hist.arg[3]
  /\ moviesQuery.fetchStatus = "idle"
  /\ Len(muts) > 0

\* C3: when an optimistic mutation fails, the cache holds exactly the
\* snapshot taken by its onMutate once its error handler has run, and the
\* movie the patch removed or changed is there as it was in the snapshot.
C3_RollbackRestoresSnapshot ==
  [][\A i \in 1..Len(muts) :
       (Optimistic(muts[i]) /\ muts[i].pc = "err" /\ MutationSettle(i)) =>
         /\ moviesQuery'.data = muts[i].context
         /\ \A x \in muts[i].context[1] :
              x.title = muts[i].vars.title => x \in moviesQuery'.data[1]]_vars

\* a failed optimistic delete has been rolled back and its movie is back
C3_Witness ==
  /\ hist.kind = "MutationSettle"
  /\ hist.arg[1] = "optDelete" /\ hist.arg[2] = "err"
  /\ moviesQuery.data # <<>>
  /\ hist.arg[3] \in TitlesOf(moviesQuery.data[1])

\* C4: from the moment delete is invoked on a movie until the response of
\* the delete resolves, the movie is absent from the cached and rendered list.
C4_DeletedAbsentWhilePending ==
  \A i \in 1..Len(muts) :
    muts[i].kind \in {"delete", "optDelete"} =>
      /\ muts[i].vars.title \notin TitlesOf(RenderedMovies(moviesQuery))
      /\ moviesQuery.data # <<>> => muts[i].vars.title \notin TitlesOf(moviesQuery.data[1])

C6_FirstPatchSurvives ==
  [][\A i, j \in 1..Len(muts) :
       (/\ i < j
        /\ Optimistic(muts[i]) /\ Optimistic(muts[j])
        /\ muts[j].pc = "err"
        /\ MutationSettle(j)) =>
         PatchPresent(moviesQuery'.data[1], muts[i])]_vars

\* C6 (amended): the later mutation's rollback restores the cache as its
\* snapshot found it, so the earlier mutation's patch is in the cache after
\* the rollback whenever it was in the cache when the snapshot was taken.
C6_FirstPatchSurvivesIfSnapshotted ==
  [][\A i, j \in 1..Len(muts) :
       (/\ i < j
        /\ Optimistic(muts[i]) /\ Optimistic(muts[j])
        /\ muts[j].pc = "err"
        /\ PatchPresent(muts[j].context[1], muts[i])
        /\ MutationSettle(j)) =>
         PatchPresent(moviesQuery'.data[1], muts[i])]_vars

\* the second of two optimistic deletes has failed and been rolled back; the
\* movie it removed is back, the movie the first one removed is still absent
\* although the server still has it
C6_Witness ==
  /\ hist.kind = "MutationSettle"
  /\ hist.arg[1] = "optDelete" /\ hist.arg[2] = "err" /\ hist.arg[4] = 2
  /\ Len(muts) = 1 /\ muts[1].kind = "optDelete" /\ muts[1].pc = "sent"
  /\ hist.arg[3] \in TitlesOf(moviesQuery.data[1])
  /\ muts[1].vars.title \notin TitlesOf(moviesQuery.data[1])
  /\ muts[1].vars.title \in TitlesOf(server.movies)

\* C7: once every mutation has settled and a read started after the last
\* invalidation has completed, the cached movie list is the server's.
C7_Convergence ==
  (muts = <<>> /\ moviesQuery.dataFresh) => moviesQuery.data = <<GET_MOVIES(server)>>

\* all the mutations of the run have settled, the last one failed and was
\* rolled back, the server has changed and the refetch has completed
C7_Witness ==
  /\ issued = MaxMutations /\ muts = <<>>
  /\ moviesQuery.dataFresh
  /\ hist.kind = "MutationSettle" /\ hist.arg[2] = "err"
  /\ server.movies # InitMovies

\* C8: the step that shows the error of a failed optimistic mutation leaves
\* the snapshot, not the patch, in the cache.
C8_RestoredWhenErrorShown ==
  [][toasts' # toasts =>
       \E i \in 1..Len(muts) :
         /\ muts[i].pc = "err"
         /\ MutationSettle(i)
         /\ moviesQuery'.data = muts[i].context]_vars

\* an error toast is shown for an update whose patch had changed the cache
C8_Witness ==
  /\ toasts > 0
  /\ hist.kind = "MutationSettle"
  /\ hist.arg[1] = "optUpdate" /\ hist.arg[2] = "err"
  /\ \E x \in moviesQuery.data[1] : x.title = hist.arg[3] /\ x.tagline # "Time"

\* C9: after a successful create the list is shown again and, once its read
\* of ['movies'] has completed without error, it contains the created movie (as long as the
\* movie is on the server).
C9_CreatedInNextRead ==
  (/\ hist.kind = "MutationSettle"
   /\ hist.arg[1] = "create" /\ hist.arg[2] = "ok"
   /\ hist.arg[3] \in TitlesOf(server.movies)
   /\ view = "list"
   /\ moviesQuery.fetchStatus = "idle" /\ ~moviesQuery.err) =>
     hist.arg[3] \in TitlesOf(RenderedMovies(moviesQuery))

\* C10: after a successful delete the list, once its read of ['movies'] has
\* completed, does not contain the deleted title (as long as the server has
\* no movie of that title), and no person is credited in the deleted movie.
C10_DeletedAbsentFromNextRead ==
  (/\ hist.kind = "MutationSettle"
   /\ hist.arg[1] = "delete" /\ hist.arg[2] = "ok"
   /\ hist.arg[3] \notin TitlesOf(server.movies)) =>
     /\ (view = "list" /\ moviesQuery.fetchStatus = "idle") =>
          hist.arg[3] \notin TitlesOf(RenderedMovies(moviesQuery))
     /\ \A e \in server.edges : e.movie # hist.arg[3]

\* C11: a failed create, update or delete is surfaced to the user: the step
\* on which the failure reaches the client shows an error indication.
C11_FailureSurfaced ==
  [][\A i \in 1..Len(muts) :
       (MutationSettle(i) /\ muts[i].pc = "err") => toasts' > toasts]_vars

\* C12: a read that fails with an authentication error or a GraphQL `errors`
\* array is not sent again: its first failure puts the query in error state.
C12_NoRetryOfAuthOrGraphQL ==
  [][\A kind \in {"auth", "graphql"} :
       FetchFailWith(kind) =>
         moviesQuery'.fetchStatus = "idle" /\ moviesQuery'.err]_vars

\* C18: the relationship manager lists, for the selected movie, exactly the
\* people connected to it on the server as actors and as directors.
C18_ManagerListsConnectedPeople ==
  ManagerShown =>
    /\ ManagerActors(selectedMovie[1]) = PeopleOf(server, selectedMovie[1].title, "ACTED_IN")
    /\ ManagerDirectors(selectedMovie[1]) = PeopleOf(server, selectedMovie[1].title, "DIRECTED")

\* C19: a movie created with only title "Arrival" and released 2016 entered
\* in the form is, in the list read after the create, a movie with that
\* title and year, tagline null and no actors or directors.
C19_CreatedMovieAsEntered ==
  (/\ hist.kind = "MutationSettle"
   /\ hist.arg[1] = "create" /\ hist.arg[2] = "ok" /\ hist.arg[3] = "Arrival"
   /\ view = "list"
   /\ moviesQuery.fetchStatus = "idle" /\ ~moviesQuery.err) =>
     \A m \in RenderedMovies(moviesQuery) :
       m.title = "Arrival" =>
         /\ m.released = 2016
         /\ m.tagline = NullStr
         /\ m.peopleActedIn = {} /\ m.peopleDirected = {}

\* C13: no create or update request is dispatched with a title that is
\* blank after trimming.
C13_NoRequestWithBlankTitle ==
  \A i \in 1..Len(muts) :
    muts[i].kind \in {"create", "update"} => trim(muts[i].vars.title) # ""

\* C14: the title sent with UPDATE_MOVIE is the title of the movie selected
\* for editing, whatever was typed into the edit form.
C14_UpdateTitleIsSelectedTitle ==
  [][(handleSubmit /\ view = "edit") =>
       /\ muts'[Len(muts')].kind = "update"
       /\ muts'[Len(muts')].vars.title = selectedMovie[1].title]_vars

\* an update is in flight from an edit form whose inputs were changed
C14_Witness ==
  /\ view = "edit" /\ selectedMovie # <<>>
  /\ \E i \in 1..Len(muts) :
       /\ muts[i].kind = "update" /\ muts[i].observed
       /\ muts[i].vars.title = selectedMovie[1].title
       /\ muts[i].vars.tagline # selectedMovie[1].tagline
       /\ muts[i].vars.released # selectedMovie[1].released

\* C20: an update from an edit form in which the tagline was changed and
\* `released` was left as it was loaded leaves the movie's `released` on the server as it was before the
\* update.
C20_UpdateKeepsUneditedReleased ==
  [][\A i \in 1..Len(muts) :
       (/\ ServerHandleMutation(i)
        /\ muts[i].kind = "update" /\ muts'[i].pc = "ok"
        /\ muts[i].observed /\ selectedMovie # <<>>
        /\ muts[i].vars.released = selectedMovie[1].released
        /\ muts[i].vars.tagline # selectedMovie[1].tagline) =>
         \A m \in server.movies :
           m.title = muts[i].vars.title =>
             \E n \in server'.movies : n.title = m.title /\ n.released = m.released]_vars

C17_SearchResultsInvalidated ==
  (/\ hist.kind = "MutationSettle"
   /\ hist.arg[1] = "delete" /\ hist.arg[2] = "ok"
   /\ hist.arg[3] \notin TitlesOf(server.movies)
   /\ search.active # "" /\ search.queries[search.active].fetchStatus = "idle") =>
     hist.arg[3] \notin TitlesOf(SearchResults)

\* the edges of one type between a movie and a person
EdgesBetween(srv, v) ==
  { e \in srv.edges : e.movie = v.title /\ e.person = v.person /\ e.rel = v.rel }

PendingOfForm ==
  { i \in 1..Len(muts) : muts[i].observed /\ muts[i].kind \in {"create", "update"} }

C24_DeleteOnlyOnConfirm ==
  [][/\ (Len(muts') > Len(muts) /\ muts'[Len(muts')].kind = "delete") =>
          \E movie \in RenderedMovies(moviesQuery) :
            /\ DeleteClick(movie, TRUE)
            /\ muts'[Len(muts')].vars.title = movie.title
     /\ \A movie \in RenderedMovies(moviesQuery) :
          DeleteClick(movie, FALSE) => UNCHANGED vars]_vars

\* the delete of one movie was confirmed and is on its way; the list still
\* shows two movies, so a Delete click can be declined
C24_Witness ==
  /\ view = "list"
  /\ Cardinality(RenderedMovies(moviesQuery)) = 2
  /\ Len(muts) = 1 /\ muts[1].kind = "delete" /\ muts[1].pc = "sent"
  /\ muts[1].vars.title \in TitlesOf(RenderedMovies(moviesQuery))

\* C25: the step that delivers the success of a create or update leaves the
\* shell on the list with no selection; the step that delivers its failure
\* leaves the view, the selection and the form as they are.
C25_CompleteOnSuccessOnly ==
  [][\A i \in 1..Len(muts) :
       (MutationSettle(i) /\ muts[i].kind \in {"create", "update"}) =>
         IF muts[i].pc = "ok"
           THEN view' = "list" /\ selectedMovie' = <<>>
           ELSE UNCHANGED <<view, selectedMovie, formData>>]_vars

\* an update has failed and the edit form of its movie is still on screen
C25_Witness ==
  /\ hist.kind = "MutationSettle" /\ hist.arg[1] = "update" /\ hist.arg[2] = "err"
  /\ view = "edit" /\ selectedMovie # <<>>
  /\ selectedMovie[1].title = hist.arg[3]
  /\ formData.released # selectedMovie[1].released

\* C26: while the form whose year defaults to the current year is on
\* screen, formData.released is an integer, neither undefined nor NaN, and
\* every create in flight carries a `released`.
C26_ReleasedAlwaysInteger ==
  /\ FormShown => formData.released \notin {Undefined, NaN}
  /\ \A i \in 1..Len(muts) :
       muts[i].kind = "create" => CreateAccepted(muts[i].vars) /\ muts[i].vars.released # NaN

\* a create carrying the default year is in flight, and the year field of
\* the form has been edited since
C26_Witness ==
  /\ view = "create"
  /\ \E i \in 1..Len(muts) :
       /\ muts[i].kind = "create" /\ muts[i].observed
       /\ muts[i].vars.released = CurrentYear
  /\ formData.released = 2016

\* C27: whenever the view is `edit` or `manage` a movie is selected, so the
\* main area shows the list, a form or the manager and is never blank.
C27_SelectionInEditAndManage ==
  /\ view \in {"edit", "manage"} => selectedMovie # <<>>
  /\ view = "list" \/ FormShown \/ ManagerShown

\* the selection was cleared by a completed mutation and a movie has been
\* opened in the manager since
C27_Witness ==
  /\ hist.kind = "MutationSettle" /\ hist.arg[2] = "ok"
  /\ hist.arg[1] \in {"create", "update"}
  /\ view = "manage" /\ selectedMovie # <<>>

\* C28: the delivery of the answer of a create or update whose form is no
\* longer on screen leaves the view and the selection as they are.
C28_CompletionOnlyIfDisplayed ==
  [][\A i \in 1..Len(muts) :
       (/\ MutationSettle(i)
        /\ muts[i].kind \in {"create", "update"}
        /\ ~muts[i].observed) =>
         UNCHANGED <<view, selectedMovie>>]_vars

\* C29: when an earlier optimistic mutation fails and rolls back while a
\* later one is still pending, the later one's patch is in the cache after
\* the rollback.
C29_RollbackKeepsLaterPatch ==
  [][\A i, j \in 1..Len(muts) :
       (/\ i < j
        /\ Optimistic(muts[i]) /\ Optimistic(muts[j])
        /\ muts[i].pc = "err"
        /\ MutationSettle(i)) =>
         PatchPresent(moviesQuery'.data[1], muts[j])]_vars

\* C30: the movie selected in the `edit` or `manage` view is not one for
\* which a delete is in flight, and no update or connect in flight is for a
\* movie with a delete in flight that was issued before it.
C30_NoSelectionOfDeleted ==
  \A i \in 1..Len(muts) :
    muts[i].kind = "delete" =>
      /\ ~(/\ view \in {"edit", "manage"}
           /\ selectedMovie # <<>>
           /\ selectedMovie[1].title = muts[i].vars.title)
      /\ \A j \in 1..Len(muts) :
           (i < j /\ muts[j].kind \in {"update", "assign"}) =>
             muts[j].vars.title # muts[i].vars.title

====
